---------------------------- MODULE Spec2Model ----------------------------
(***************************************************************************)
(* Model of the bike-sharing dashboard script src/app.py.                  *)
(*                                                                         *)
(* The script is re-executed from top to bottom on every user interaction. *)
(* One run is: load_data() (cached by st.cache_data), read the sidebar     *)
(* widgets, narrow a copy of the enriched frame step by step, compute the  *)
(* three KPI values and decide whether the correlation heatmap is drawn.   *)
(*                                                                         *)
(* A data frame is modelled as the sequence of its rows (records).  Only   *)
(* the columns the filter and KPI code reads are kept in a row; the other  *)
(* columns of train.csv matter only through the number of int64/float64    *)
(* columns, which is kept in num_dtype_cols.                               *)
(***************************************************************************)
EXTENDS Integers, Sequences, FiniteSets, TLC

VARIABLES
    raw,               \* rows of train.csv as pd.read_csv returns them
    num_dtype_cols,    \* number of int64/float64 columns of the enriched frame
    cache,             \* st.cache_data entry of load_data
    df,                \* the global df of the current run
    year_opt,          \* sidebar widgets
    season_opt,
    weather_opt,
    workingday_label,
    min_hour,
    max_hour,
    use_registered,
    df_filtered,       \* outputs of the current run
    kpi_total,
    kpi_mean,
    peak_hour,
    corr,
    status             \* "idle" before the first run, then "ok" or "error"

vars == <<raw, num_dtype_cols, cache, df, year_opt, season_opt, weather_opt,
          workingday_label, min_hour, max_hour, use_registered, df_filtered,
          kpi_total, kpi_mean, peak_hour, corr, status>>

\* ------------------------------------------------------------------ bounds

\* Longest train.csv (in rows) the model draws.
MaxRows == 3

\* Largest number of int64/float64 columns the model draws.
MaxNumCols == 2

\* Largest number of widgets away from their default at the same time.
MaxOffDefault == 2


\* ------------------------------------------------------- program constants

SliderMin == 0
SliderMax == 23

\* Positions the hour slider is moved to in the model (any value of
\* SliderMin..SliderMax is possible in the program).
HourMarks == {SliderMin, 8, SliderMax}

\* ----------------------------------------------------------------- helpers

RECURSIVE Sum(_)
\* pandas Series.sum(): 0 for an empty series.
Sum(s) == IF Len(s) = 0 THEN 0 ELSE Head(s) + Sum(Tail(s))

RECURSIVE GCD(_, _)
GCD(a, b) == IF b = 0 THEN a ELSE GCD(b, a % b)

\* A float: NaN, or the exact quotient num/den in lowest terms.
NaN == [nan |-> TRUE, num |-> 0, den |-> 1]

Quotient(n, d) ==
    LET g == GCD(n, d)
    IN  IF g = 0 THEN [nan |-> FALSE, num |-> 0, den |-> 1]
        ELSE [nan |-> FALSE, num |-> n \div g, den |-> d \div g]

\* a > b on non-NaN floats.
FloatGt(a, b) == a.num * b.den > b.num * a.den

\* pandas Series.mean(): NaN for an empty series, else sum / count.
MeanOf(s) == IF Len(s) = 0 THEN NaN ELSE Quotient(Sum(s), Len(s))

RECURSIVE Select(_, _)
\* frame[mask]: the rows whose mask entry is TRUE, in the frame's order.
Select(frame, mask) ==
    IF Len(frame) = 0 THEN <<>>
    ELSE (IF Head(mask) THEN <<Head(frame)>> ELSE <<>>)
         \o Select(Tail(frame), Tail(mask))

\* A column of a frame, as a sequence.
Column(frame, col) == [i \in 1..Len(frame) |-> frame[i][col]]

Min(S) == CHOOSE x \in S : \A y \in S : x <= y

RECURSIVE Sorted(_)
\* sorted(...) of a set of integers.
Sorted(S) == IF S = {} THEN <<>> ELSE <<Min(S)>> \o Sorted(S \ {Min(S)})

\* ------------------------------------------------------------ data loading

season_map == [c \in 1..4 |->
                 CASE c = 1 -> "spring" [] c = 2 -> "summer"
                   [] c = 3 -> "fall"   [] c = 4 -> "winter"]

\* The missing value Series.map leaves for a key that is not in the dict.
SeasonNaN == "NaN"

MapSeason(code) == IF code \in DOMAIN season_map THEN season_map[code] ELSE SeasonNaN


\* get_day_period with the first threshold closed at the high end.
get_day_period_closed(h) ==
    IF h <= 6 THEN "night"
    ELSE IF h < 12 THEN "morning"
    ELSE IF h < 18 THEN "afternoon"
    ELSE "evening"

get_day_period(h) ==
    IF h < 6 THEN "night"
    ELSE IF h < 12 THEN "morning"
    ELSE IF h < 18 THEN "afternoon"
    ELSE "evening"

EnrichRow(r) ==
    [year |-> r.datetime.year, hour |-> r.datetime.hour,
     season |-> r.season, weather |-> r.weather, workingday |-> r.workingday,
     registered |-> r.registered, count |-> r.count,
     season_name |-> MapSeason(r.season),
     day_period |-> get_day_period(r.datetime.hour)]

\* The body of load_data applied to the rows read from train.csv.
Enrich(rows) == [i \in 1..Len(rows) |-> EnrichRow(rows[i])]

NoCache == [stored |-> FALSE, value |-> <<>>]

\* @st.cache_data: the body runs on a miss, the stored value is returned on a hit.
load_data(c, rows) == IF c.stored THEN c.value ELSE Enrich(rows)


\* ---------------------------------------------------------- sidebar widgets

\* The options of the Year selectbox: "Both", 2011, 2012.  A selection is
\* tagged, since "Both" is a string and the others are integers.
YearBoth == [both |-> TRUE, year |-> 0]

YearOptions == {YearBoth, [both |-> FALSE, year |-> 2011],
                [both |-> FALSE, year |-> 2012]}

\* options of the Season multiselect: df["season_name"].dropna().unique()
SeasonOptions(d) == {d[i].season_name : i \in 1..Len(d)} \ {SeasonNaN}

\* options of the Weather multiselect: df["weather"].unique()
WeatherOptions(d) == {d[i].weather : i \in 1..Len(d)}

\* workingday_map; None is tagged, the other values are the stored flag.
workingday_map ==
    [l \in {"Both", "Working days only", "Non-working days only"} |->
       CASE l = "Both" -> [none |-> TRUE, val |-> 0]
         [] l = "Working days only" -> [none |-> FALSE, val |-> 1]
         [] l = "Non-working days only" -> [none |-> FALSE, val |-> 0]]

\* ------------------------------------------------------------ apply filters


\* An incremental run: narrowing goes on from the frame of the run before.
StartFromPrevious(d, prev) == IF status = "idle" THEN d ELSE prev

\* df_filtered = df.copy(): every run starts from the whole enriched frame;
\* prev is the df_filtered of the run before, which the code never reads.
StartFrame(d, prev) == d

FilterYear(frame, y) ==
    IF ~y.both
    THEN Select(frame, [i \in 1..Len(frame) |-> frame[i].year = y.year])
    ELSE frame


\* The season step skipped when every option is selected.
FilterSeasonSkipFull(frame, seasons) ==
    IF seasons = SeasonOptions(df) /\ status # "idle" THEN frame
    ELSE Select(frame, [i \in 1..Len(frame) |-> frame[i].season_name \in seasons])

FilterSeason(frame, seasons) ==
    Select(frame, [i \in 1..Len(frame) |-> frame[i].season_name \in seasons])

FilterWeather(frame, weathers) ==
    Select(frame, [i \in 1..Len(frame) |-> frame[i].weather \in weathers])


\* The hour step with an exclusive upper end.
FilterHourExclusive(frame, lo, hi) ==
    Select(frame, [i \in 1..Len(frame) |->
                     frame[i].hour >= lo /\ frame[i].hour < hi])

FilterHour(frame, lo, hi) ==
    Select(frame, [i \in 1..Len(frame) |->
                     frame[i].hour >= lo /\ frame[i].hour <= hi])

FilterWorkingDay(frame, label) ==
    LET wd_val == workingday_map[label]
    IN  IF ~wd_val.none
        THEN Select(frame, [i \in 1..Len(frame) |-> frame[i].workingday = wd_val.val])
        ELSE frame

\* Lines 175-186: the value of df_filtered after the five narrowing steps.
ApplyFilters(d, prev, y, seasons, weathers, lo, hi, label) ==
    FilterWorkingDay(
        FilterHour(
            FilterWeather(
                FilterSeason(
                    FilterYear(StartFrame(d, prev), y), seasons), weathers),
            lo, hi),
        label)


\* The steps narrowing the shared frame itself.
FrameNarrowed(d, filtered) == filtered

\* The global df after lines 175-186: the steps rebind df_filtered only.
FrameAfterFilters(d, filtered) == d


\* The checkbox ignored.
target_col_count(reg) == "count"

target_col(reg) == IF reg THEN "registered" ELSE "count"

\* --------------------------------------------------------------- KPI metrics

Total(frame, col) == Sum(Column(frame, col))

Mean(frame, col) == MeanOf(Column(frame, col))

\* groupby("hour")[col].mean(): one entry per hour present, keys ascending
\* (groupby sorts its keys).
GroupKeys(frame) == Sorted({frame[i].hour : i \in 1..Len(frame)})

GroupByHourMean(frame, col) ==
    LET keys == GroupKeys(frame)
    IN  [k \in 1..Len(keys) |->
           [hour |-> keys[k],
            mean |-> MeanOf(Column(
                        Select(frame, [i \in 1..Len(frame) |-> frame[i].hour = keys[k]]),
                        col))]]


\* A scan that keeps the last maximal entry.
BetterOrEqual(series, i, best) == ~FloatGt(series[best].mean, series[i].mean)

\* Whether entry i replaces the best entry so far in the scan of idxmax.
Better(series, i, best) == FloatGt(series[i].mean, series[best].mean)

RECURSIVE ArgMax(_, _, _)
ArgMax(series, i, best) ==
    IF i > Len(series) THEN best
    ELSE ArgMax(series, i + 1, IF Better(series, i, best) THEN i ELSE best)

\* Series.idxmax(): the label of the first maximal entry; ValueError when empty.
IdxMax(series) ==
    IF Len(series) = 0 THEN [raised |-> TRUE, label |-> 0]
    ELSE [raised |-> FALSE, label |-> series[ArgMax(series, 1, 1)].hour]

\* peak_hour is an integer (tag "int"), the string "-" (tag "str"), or the run
\* ended in an exception before it was bound (tag "raise").
PeakDash == [tag |-> "str", int |-> 0, str |-> "-"]


\* The peak computed without the emptiness test.
PeakHourUnguarded(frame, col) ==
    LET r == IdxMax(GroupByHourMean(frame, col))
    IN  IF r.raised THEN [tag |-> "raise", int |-> 0, str |-> ""]
        ELSE [tag |-> "int", int |-> r.label, str |-> ""]

PeakHour(frame, col) ==
    IF Len(frame) # 0
    THEN LET r == IdxMax(GroupByHourMean(frame, col))
         IN  IF r.raised THEN [tag |-> "raise", int |-> 0, str |-> ""]
             ELSE [tag |-> "int", int |-> r.label, str |-> ""]
    ELSE PeakDash


\* The heatmap decided on the number of columns alone.
CorrelationsColsOnly(frame, ncols) == IF ncols > 1 THEN "heatmap" ELSE "info"

\* Tab 3: the heatmap is drawn, or st.info reports too little numeric data.
Correlations(frame, ncols) ==
    IF ncols > 1 /\ Len(frame) # 0 THEN "heatmap" ELSE "info"

\* -------------------------------------------------------------- one run

\* One execution of the script with the given widget values.
ScriptRun(y, seasons, weathers, label, lo, hi, reg) ==
    LET d        == load_data(cache, raw)
        filtered == ApplyFilters(d, df_filtered, y, seasons, weathers, lo, hi, label)
        col      == target_col(reg)
        peak     == PeakHour(filtered, col)
    IN  /\ cache' = [stored |-> TRUE, value |-> d]
        /\ df' = FrameAfterFilters(d, filtered)
        /\ year_opt' = y
        /\ season_opt' = seasons
        /\ weather_opt' = weathers
        /\ workingday_label' = label
        /\ min_hour' = lo
        /\ max_hour' = hi
        /\ use_registered' = reg
        /\ df_filtered' = filtered
        /\ kpi_total' = Total(filtered, col)
        /\ kpi_mean' = Mean(filtered, col)
        /\ peak_hour' = peak
        /\ status' = IF peak.tag = "raise" THEN "error" ELSE "ok"
        /\ corr' = IF peak.tag = "raise" THEN "none"
                   ELSE Correlations(filtered, num_dtype_cols)
        /\ UNCHANGED <<raw, num_dtype_cols>>

\* -------------------------------------------------------------- datasets

Row(y, h, s, w, wd, reg, cnt) ==
    [datetime |-> [year |-> y, hour |-> h], season |-> s, weather |-> w,
     workingday |-> wd, registered |-> reg, count |-> cnt]

\* The rows datasets are built from: two rows of the same hour, a row of a
\* later hour and of a year the selectbox does not offer, whose count ties
\* their mean, and a row whose season code is not in season_map.
RowPool ==
    { Row(2011, 8, 1, 1, 1, 2, 4),
      Row(2012, 8, 1, 1, 0, 1, 2),
      Row(2013, 17, 2, 2, 1, 2, 3),
      Row(2012, 5, 5, 1, 0, 0, 0) }

\* A train.csv: up to MaxRows distinct observations, in any order.
Datasets ==
    UNION {{s \in [1..n -> RowPool] : \A i, j \in 1..n : s[i] = s[j] => i = j}
             : n \in 1..MaxRows}

Init ==
    /\ raw \in Datasets
    /\ num_dtype_cols \in 1..MaxNumCols
    /\ cache = NoCache
    /\ df = <<>>
    /\ year_opt = YearBoth
    /\ season_opt = {}
    /\ weather_opt = {}
    /\ workingday_label = "Both"
    /\ min_hour = SliderMin
    /\ max_hour = SliderMax
    /\ use_registered = FALSE
    /\ df_filtered = <<>>
    /\ kpi_total = 0
    /\ kpi_mean = NaN
    /\ peak_hour = PeakDash
    /\ corr = "none"
    /\ status = "idle"

\* ------------------------------------------------------------ interactions

Off(b) == IF b THEN 1 ELSE 0

\* The widget values the model explores: at most MaxOffDefault widgets are
\* away from their default (any number of interactions may lead there).
Explored(y, seasons, weathers, label, lo, hi, reg) ==
    Off(y # YearBoth) + Off(seasons # SeasonOptions(df))
      + Off(weathers # WeatherOptions(df)) + Off(label # "Both")
      + Off(<<lo, hi>> # <<SliderMin, SliderMax>>) + Off(reg)
    <= MaxOffDefault

\* The first run of a session: every widget returns its default.
FirstRun ==
    /\ status = "idle"
    /\ LET d == load_data(cache, raw)
       IN  ScriptRun(YearBoth, SeasonOptions(d), WeatherOptions(d), "Both",
                     SliderMin, SliderMax, FALSE)

SelectYear ==
    /\ status = "ok"
    /\ \E y \in YearOptions \ {year_opt} :
         /\ Explored(y, season_opt, weather_opt, workingday_label,
                      min_hour, max_hour, use_registered)
         /\ ScriptRun(y, season_opt, weather_opt, workingday_label,
                      min_hour, max_hour, use_registered)

SelectSeasons ==
    /\ status = "ok"
    /\ \E s \in (SUBSET SeasonOptions(df)) \ {season_opt} :
         /\ Explored(year_opt, s, weather_opt, workingday_label,
                      min_hour, max_hour, use_registered)
         /\ ScriptRun(year_opt, s, weather_opt, workingday_label,
                      min_hour, max_hour, use_registered)

SelectWeather ==
    /\ status = "ok"
    /\ \E w \in (SUBSET WeatherOptions(df)) \ {weather_opt} :
         /\ Explored(year_opt, season_opt, w, workingday_label,
                      min_hour, max_hour, use_registered)
         /\ ScriptRun(year_opt, season_opt, w, workingday_label,
                      min_hour, max_hour, use_registered)

SelectWorkingDay ==
    /\ status = "ok"
    /\ \E l \in (DOMAIN workingday_map) \ {workingday_label} :
         /\ Explored(year_opt, season_opt, weather_opt, l,
                      min_hour, max_hour, use_registered)
         /\ ScriptRun(year_opt, season_opt, weather_opt, l,
                      min_hour, max_hour, use_registered)

SlideHours ==
    /\ status = "ok"
    /\ \E lo \in HourMarks, hi \in HourMarks :
         /\ lo <= hi
         /\ <<lo, hi>> # <<min_hour, max_hour>>
         /\ Explored(year_opt, season_opt, weather_opt, workingday_label,
                      lo, hi, use_registered)
         /\ ScriptRun(year_opt, season_opt, weather_opt, workingday_label,
                      lo, hi, use_registered)

ToggleRegistered ==
    /\ status = "ok"
    /\ Explored(year_opt, season_opt, weather_opt, workingday_label,
                 min_hour, max_hour, ~use_registered)
    /\ ScriptRun(year_opt, season_opt, weather_opt, workingday_label,
                 min_hour, max_hour, ~use_registered)

Next ==
    \/ FirstRun
    \/ SelectYear
    \/ SelectSeasons
    \/ SelectWeather
    \/ SelectWorkingDay
    \/ SlideHours
    \/ ToggleRegistered

Spec == Init /\ [][Next]_vars


\* ------------------------------------------------- day-period specification

Hours == SliderMin..SliderMax

\* A train.csv holding one observation per hour of a day, starting at any
\* hour, of any year and season code.
DayDatasets ==
    { [i \in 1..Cardinality(Hours) |->
         Row(y, (start + i - 1) % Cardinality(Hours), s, 1, 1, 1, 2)]
        : start \in Hours, s \in 1..5, y \in {2011, 2012} }

InitPeriod ==
    /\ raw \in DayDatasets
    /\ num_dtype_cols = MaxNumCols
    /\ cache = NoCache
    /\ df = <<>>
    /\ year_opt = YearBoth
    /\ season_opt = {}
    /\ weather_opt = {}
    /\ workingday_label = "Both"
    /\ min_hour = SliderMin
    /\ max_hour = SliderMax
    /\ use_registered = FALSE
    /\ df_filtered = <<>>
    /\ kpi_total = 0
    /\ kpi_mean = NaN
    /\ peak_hour = PeakDash
    /\ corr = "none"
    /\ status = "idle"

SpecPeriod == InitPeriod /\ [][FirstRun]_vars

\* ------------------------------------------------------------------ claims

\* The script has run at least once.
Ran == status # "idle"

\* The stored flag the working-day selection compares against.
WantedFlag == IF workingday_label = "Working days only" THEN 1 ELSE 0

\* A row satisfies every active predicate of the current widget values.
SatisfiesAll(r) ==
    /\ year_opt.both \/ r.year = year_opt.year
    /\ r.season_name \in season_opt
    /\ r.weather \in weather_opt
    /\ min_hour <= r.hour /\ r.hour <= max_hour
    /\ workingday_label = "Both" \/ r.workingday = WantedFlag

\* The target metric of a row under the current checkbox value.
Target(r) == IF use_registered THEN r.registered ELSE r.count

RECURSIVE TargetSum(_)
TargetSum(rows) == IF rows = <<>> THEN 0 ELSE Target(Head(rows)) + TargetSum(Tail(rows))

RowsAt(rows, h) == SelectSeq(rows, LAMBDA r : r.hour = h)

HoursIn(rows) == {rows[i].hour : i \in 1..Len(rows)}

\* mean(h1) <= mean(h2) over the filtered rows, by cross-multiplication.
MeanLeq(h1, h2) ==
    TargetSum(RowsAt(df_filtered, h1)) * Len(RowsAt(df_filtered, h2))
      <= TargetSum(RowsAt(df_filtered, h2)) * Len(RowsAt(df_filtered, h1))

\* C1: after a run the filtered rows are exactly the rows of the enriched
\* frame that satisfy every active predicate (year unless "Both", season and
\* weather membership, min <= hour <= max, working-day flag unless "Both"),
\* in the frame's order.
C1_FilterExact == Ran => df_filtered = SelectSeq(df, SatisfiesAll)

\* A run kept a row whose hour is both ends of the range and dropped another
\* row, with the working-day predicate active.
C1_Witness ==
    /\ Ran
    /\ workingday_label # "Both"
    /\ min_hour = max_hour
    /\ df_filtered # <<>>
    /\ Len(df_filtered) < Len(df)
    /\ \E i \in 1..Len(df) : df[i].hour > max_hour
    /\ \E i \in 1..Len(df) : df[i].hour < min_hour

\* C2: for a non-empty filtered frame the peak hour is an hour present whose
\* group mean of the target metric is maximal, and the smallest such hour,
\* whatever the order of the rows.
C2_PeakSmallestMaximal ==
    (Ran /\ df_filtered # <<>>) =>
        /\ peak_hour.tag = "int"
        /\ peak_hour.int \in HoursIn(df_filtered)
        /\ \A h \in HoursIn(df_filtered) :
             /\ MeanLeq(h, peak_hour.int)
             /\ MeanLeq(peak_hour.int, h) => peak_hour.int <= h

\* Two hours tie for the maximal mean and the rows of the larger hour come
\* first in the frame.
C2_Witness ==
    /\ Ran
    /\ df_filtered # <<>>
    /\ peak_hour.tag = "int"
    /\ Len(RowsAt(df_filtered, peak_hour.int)) > 1
    /\ \E h \in HoursIn(df_filtered) :
         /\ h > peak_hour.int
         /\ MeanLeq(peak_hour.int, h)
         /\ df_filtered[1].hour = h

\* C3: when the filtered frame is empty the run ends without an exception,
\* the total is 0, the mean is NaN (not the mean zero) and the peak hour is
\* the string "-", which is no hour.
C3_EmptyMarkers ==
    (Ran /\ df_filtered = <<>>) =>
        /\ status = "ok"
        /\ kpi_total = 0
        /\ kpi_mean.nan
        /\ kpi_mean # Quotient(0, 1)
        /\ peak_hour.tag = "str"
        /\ peak_hour.str = "-"

\* A non-empty season and weather selection that matches no row.
C3_Witness ==
    /\ status = "ok"
    /\ df # <<>>
    /\ season_opt # {}
    /\ weather_opt # {}
    /\ df_filtered = <<>>
    /\ kpi_mean.nan

\* The widget values lie outside the documented FilterSpec domains.
InvalidFilterSpec ==
    \/ season_opt = {}
    \/ weather_opt = {}
    \/ min_hour > max_hour
    \/ min_hour < SliderMin
    \/ max_hour > SliderMax

\* C4: a run whose widget values are outside the documented domains (empty
\* season set, empty weather set, reversed or out-of-range hours) ends in a
\* validation error and produces no filtered result.
C4_InvalidSpecRejected == (Ran /\ InvalidFilterSpec) => status = "error"

\* C5: every hour h in 0..23 of the enriched frame has exactly the bucket
\* night (h < 6), morning (6 <= h < 12), afternoon (12 <= h < 18) or
\* evening (h >= 18).
C5_DayPeriodBuckets ==
    \A i \in 1..Len(df) :
        LET h == df[i].hour
            p == df[i].day_period
        IN  h \in Hours =>
              /\ p \in {"night", "morning", "afternoon", "evening"}
              /\ p = "night" <=> h < 6
              /\ p = "morning" <=> (6 <= h /\ h < 12)
              /\ p = "afternoon" <=> (12 <= h /\ h < 18)
              /\ p = "evening" <=> h >= 18

HasPeriod(h, p) == \E i \in 1..Len(df) : df[i].hour = h /\ df[i].day_period = p

\* The boundary hours have been bucketed.
C5_Witness ==
    /\ Ran
    /\ HasPeriod(5, "night")
    /\ HasPeriod(6, "morning")
    /\ HasPeriod(11, "morning")
    /\ HasPeriod(12, "afternoon")
    /\ HasPeriod(17, "afternoon")
    /\ HasPeriod(18, "evening")
    /\ HasPeriod(0, "night")
    /\ HasPeriod(23, "evening")

\* A row satisfies every predicate but the year's.
SatisfiesAllButYear(r) ==
    /\ r.season_name \in season_opt
    /\ r.weather \in weather_opt
    /\ min_hour <= r.hour /\ r.hour <= max_hour
    /\ workingday_label = "Both" \/ r.workingday = WantedFlag

\* C6: with year = "Both" a row is kept whatever its year; the season
\* predicate is a membership test even when every option is selected, so a
\* row whose season code is outside 1..4 is never kept.
C6_YearBypassSeasonApplied ==
    Ran =>
        /\ year_opt.both => df_filtered = SelectSeq(df, SatisfiesAllButYear)
        /\ \A i \in 1..Len(df_filtered) : df_filtered[i].season \in 1..4

\* Every season option is selected, a row of a year other than 2011 and 2012
\* is kept and a row without a season name is dropped.
C6_Witness ==
    /\ Ran
    /\ year_opt.both
    /\ season_opt = SeasonOptions(df)
    /\ \E i \in 1..Len(df_filtered) : df_filtered[i].year \notin {2011, 2012}
    /\ \E i \in 1..Len(df) : df[i].season \notin 1..4
    /\ Len(df_filtered) < Len(df)

\* The filtered rows the current widget values select from the enriched
\* train.csv.
FromScratch == SelectSeq(Enrich(raw), SatisfiesAll)

\* C7: after any sequence of interactions the filtered rows, total, mean and
\* peak hour are those of the current widget values applied to the whole
\* enriched dataset.
C7_RecomputedFromScratch ==
    Ran =>
        /\ df_filtered = FromScratch
        /\ kpi_total = Total(FromScratch, target_col(use_registered))
        /\ kpi_mean = Mean(FromScratch, target_col(use_registered))
        /\ peak_hour = PeakHour(FromScratch, target_col(use_registered))

\* Two widgets are away from their defaults (so at least two interactions
\* took place) and the result is neither empty nor everything.
C7_Witness ==
    /\ Ran
    /\ ~year_opt.both
    /\ <<min_hour, max_hour>> # <<SliderMin, SliderMax>>
    /\ df_filtered # <<>>
    /\ Len(df_filtered) < Len(df)

\* C8: for a non-empty filtered frame the total is the sum of the target
\* metric (registered when the checkbox is set, count otherwise) over the
\* filtered rows, and the mean is the total divided by their number.
C8_TotalAndMean ==
    (Ran /\ df_filtered # <<>>) =>
        /\ kpi_total = TargetSum(df_filtered)
        /\ ~kpi_mean.nan
        /\ kpi_mean.den > 0
        /\ kpi_mean.num * Len(df_filtered) = kpi_total * kpi_mean.den

\* The registered metric over a proper, several-row subset with a mean that
\* is no integer and differs from the count's.
C8_Witness ==
    /\ Ran
    /\ use_registered
    /\ Len(df_filtered) > 1
    /\ Len(df_filtered) < Len(df)
    /\ kpi_mean.den > 1
    /\ kpi_total # Total(df_filtered, "count")

C10_EnrichedUnchanged ==
    Ran => /\ df = Enrich(raw)
           /\ cache.stored
           /\ cache.value = Enrich(raw)

\* A run narrowed df_filtered while df kept every row.
C10_Witness ==
    /\ Ran
    /\ Len(df) > 1
    /\ df_filtered # <<>>
    /\ Len(df_filtered) < Len(df)
    /\ use_registered

=============================================================================
